---- MODULE Spec2Model ----
(***************************************************************************)
(* Leave-request approval workflow of leave_app: the LeaveRequest rows,    *)
(* their LeaveTransition audit rows, the access filter, the per-action     *)
(* permission classes and the four transition handlers of                  *)
(* LeaveRequestViewSet (submit, approve, reject, cancel).                   *)
(*                                                                         *)
(* Spec      runs every handler as one step (handlers one at a time).      *)
(* SpecConc  runs a handler as the three database steps its code makes:    *)
(*           get_object (SELECT), leave.save() (UPDATE) and                *)
(*           LeaveTransition.objects.create (INSERT), each committed on    *)
(*           its own, with two handlers in flight and a handler that may   *)
(*           stop between two steps.                                       *)
(*                                                                         *)
(* SpecRead  is the handlers with the two reads (list, retrieve), called   *)
(*           by one principal of each role.                                *)
(* SpecCrud  adds create with any body, update, partial_update and destroy *)
(*           to Spec.                                                      *)
(* SpecOwner is SpecCrud with the bodies that differ in the read-only      *)
(*           fields only, called by one principal of each role.            *)
(* SpecUpd   runs update and partial_update step by step beside the        *)
(*           transition handlers.                                          *)
(* SpecAudit is the handlers with the audit-log routes, called by one      *)
(*           principal of each role.                                       *)
(*                                                                         *)
(* A row carries employee and status (leaveRequests) and start_date and    *)
(* end_date (dates); leave_type and reason are read by no handler, by no   *)
(* permission class and by no validator and are left out.                  *)
(***************************************************************************)
EXTENDS Integers, Sequences, FiniteSets, TLC

\* Largest primary key the model hands out to a LeaveRequest.
MaxRequests == 1

\* SpecUpd: the most LeaveTransition rows of a request on which a call starts.
MaxTransitions == 2

\* SpecAudit: the largest place of a row that an audit-log retrieve asks for.
MaxRows == 3

\* ------------------------------------------------------------------ users
\* The User table (models.py, User): fixed while the handlers run, since no
\* exposed operation writes it (UserViewSet is read-only).
Users == {"e1", "m1", "m2", "h1", "h2"}

None == "None"

\* User.role
role == [u \in Users |->
           CASE u = "e1" -> "employee"
             [] u = "m1" -> "manager"
             [] u = "m2" -> "manager"
             [] u = "h1" -> "hr"
             [] u = "h2" -> "hr"]

\* User.manager (nullable self reference)
manager == [u \in Users |->
              CASE u = "e1" -> "m1"
                [] u = "m1" -> "m2"
                [] u = "m2" -> "h1"
                [] u = "h1" -> None
                [] u = "h2" -> None]

\* LeaveRequest.STATUS_CHOICES
STATUS_CHOICES ==
  {"draft", "submitted", "approved_manager", "approved_hr", "rejected", "cancelled"}

Ids == 1..MaxRequests

TransitionActions == {"submit", "approve", "reject", "cancel"}

VARIABLES
  leaveRequests,  \* LeaveRequest table: pk -> [employee, status]
  dates,          \* LeaveRequest table, date columns: pk -> [start_date, end_date]
  transitions,    \* LeaveTransition rows of each request, oldest first
  nextId,         \* next primary key of the LeaveRequest table
  resp,           \* the last HTTP response: [op, user, pk, code, body]
  pc,             \* SpecConc: where each in-flight handler stands
  local           \* SpecConc: the handler's request and its loaded `leave`

vars == <<leaveRequests, dates, transitions, nextId, resp, pc, local>>

\* ------------------------------------------------------- access filter
\* get_queryset with the manager's filter left out: a manager sees every row.
get_queryset_manager_sees_all(user) ==
  IF role[user] \in {"hr", "manager"} THEN DOMAIN leaveRequests
  ELSE {pk \in DOMAIN leaveRequests : leaveRequests[pk].employee = user}

\* LeaveRequestViewSet.get_queryset: the primary keys visible to `user`.
get_queryset(user) ==
  IF role[user] = "hr" THEN DOMAIN leaveRequests
  ELSE IF role[user] = "manager" THEN
    {pk \in DOMAIN leaveRequests :
        \/ manager[leaveRequests[pk].employee] = user
        \/ leaveRequests[pk].employee = user}
  ELSE {pk \in DOMAIN leaveRequests : leaveRequests[pk].employee = user}

\* ---------------------------------------------------------- permissions
\* get_permissions with cancel left out of the owner-only list, so that cancel
\* runs under the default IsAuthenticated.
get_permissions_cancel_default(action, user) ==
  IF action \in {"update", "partial_update", "destroy"} THEN
    {"IsOwnerOrReadOnly"}
  ELSE IF action \in {"approve", "reject"} THEN
    IF role[user] = "manager" THEN {"IsManagerOfEmployee"}
    ELSE IF role[user] = "hr" THEN {"IsHR"}
    ELSE {"IsAuthenticated"}
  ELSE {"IsAuthenticated"}

\* LeaveRequestViewSet.get_permissions: the permission classes of an action.
get_permissions(action, user) ==
  IF action \in {"update", "partial_update", "destroy", "cancel"} THEN
    {"IsOwnerOrReadOnly"}
  ELSE IF action \in {"approve", "reject"} THEN
    IF role[user] = "manager" THEN {"IsManagerOfEmployee"}
    ELSE IF role[user] = "hr" THEN {"IsHR"}
    ELSE {"IsAuthenticated"}
  ELSE {"IsAuthenticated"}

\* has_permission with IsHR granting every caller.
has_permission_any_role(perm, user) == TRUE

\* has_permission of each class; every caller here is an authenticated user.
has_permission(perm, user) ==
  IF perm = "IsHR" THEN role[user] = "hr" ELSE TRUE

\* has_object_permission with IsManagerOfEmployee granting every object.
has_object_permission_any_manager(perm, user, obj) ==
  IF perm = "IsOwnerOrReadOnly" THEN
    obj.employee = user \/ role[user] = "hr"
  ELSE TRUE

\* has_object_permission of each class on the loaded row `obj`.
has_object_permission(perm, user, obj) ==
  IF perm = "IsOwnerOrReadOnly" THEN
    obj.employee = user \/ role[user] = "hr"
  ELSE IF perm = "IsManagerOfEmployee" THEN
    manager[obj.employee] = user \/ role[user] = "hr"
  ELSE TRUE

\* The view's entry for a detail action: check_permissions, then get_object
\* (404 outside get_queryset, 403 on a failed object permission, else 200).
get_object(action, user, pk) ==
  IF \E perm \in get_permissions(action, user) : ~has_permission(perm, user) THEN 403
  ELSE IF pk \notin get_queryset(user) THEN 404
  ELSE IF \E perm \in get_permissions(action, user) :
            ~has_object_permission(perm, user, leaveRequests[pk]) THEN 403
  ELSE 200

\* ----------------------------------------------------------- serializer
\* Dates as days; Today is timezone.now().date() of validate_start_date.
Yesterday == 0
Today == 1
Tomorrow == 2
Dates == {Yesterday, Today, Tomorrow}

\* A date field the request body does not hold (data.get(...) is None).
Absent == -1

\* Request bodies of create, update and partial_update: the two date fields,
\* each given or not, without or with values for the read-only fields status
\* and employee.
Bodies ==
  [start_date : Dates \cup {Absent}, end_date : Dates \cup {Absent},
   status : {None}, employee : {None}]
  \cup
  [start_date : Dates \cup {Absent}, end_date : Dates \cup {Absent},
   status : {"approved_hr"}, employee : {"h1"}]

\* validated_data with status and employee not read-only.
validated_data_all_writable(data) == data

\* LeaveRequestSerializer.Meta.read_only_fields: status and employee of the
\* body do not reach validated_data.
validated_data(data) ==
  [data EXCEPT !.status = None, !.employee = None]

\* LeaveRequestSerializer.validate_start_date
validate_start_date(value) == ~(value < Today)

\* LeaveRequestSerializer.validate
validate(data) ==
  ~(data.start_date # Absent /\ data.end_date # Absent /\ data.end_date < data.start_date)

\* serializer.is_valid: both dates are required unless partial; the field
\* validator runs on a start_date that is given, then validate.
is_valid(data, partial) ==
  /\ partial \/ (data.start_date # Absent /\ data.end_date # Absent)
  /\ data.start_date # Absent => validate_start_date(data.start_date)
  /\ validate(data)

\* ------------------------------------------------------------- handlers
\* What a handler does with the loaded row: the response code, whether it
\* calls leave.save() and with which status, and the LeaveTransition rows it
\* creates.
Saved(status, action, user) ==
  [code |-> 200, save |-> TRUE, status |-> status,
   create |-> <<[action |-> action, by |-> user]>>]

Refused(code, leave) ==
  [code |-> code, save |-> FALSE, status |-> leave.status, create |-> <<>>]

\* LeaveRequestViewSet.submit
submit(leave, user) ==
  IF leave.status # "draft" THEN Refused(400, leave)
  ELSE Saved("submitted", "submitted", user)

\* approve with the role test of the manager branch left out: whoever the
\* owner's manager reference names gets the manager approval.
approve_without_role_test(leave, user) ==
  IF leave.status = "submitted" THEN
    IF manager[leave.employee] = user THEN
      Saved("approved_manager", "approved by manager", user)
    ELSE IF role[user] = "hr" THEN
      Saved("approved_hr", "approved by HR", user)
    ELSE Refused(403, leave)
  ELSE IF leave.status = "approved_manager" /\ role[user] = "hr" THEN
    Saved("approved_hr", "approved by HR", user)
  ELSE Refused(400, leave)

\* approve with the approved_manager branch left out: hr approves only
\* submitted requests.
approve_only_submitted(leave, user) ==
  IF leave.status = "submitted" THEN
    IF role[user] = "manager" /\ manager[leave.employee] = user THEN
      Saved("approved_manager", "approved by manager", user)
    ELSE IF role[user] = "hr" THEN
      Saved("approved_hr", "approved by HR", user)
    ELSE Refused(403, leave)
  ELSE Refused(400, leave)

\* approve with the manager branch's LeaveTransition create left out.
approve_without_record(leave, user) ==
  IF leave.status = "submitted" THEN
    IF role[user] = "manager" /\ manager[leave.employee] = user THEN
      [code |-> 200, save |-> TRUE, status |-> "approved_manager", create |-> <<>>]
    ELSE IF role[user] = "hr" THEN
      Saved("approved_hr", "approved by HR", user)
    ELSE Refused(403, leave)
  ELSE IF leave.status = "approved_manager" /\ role[user] = "hr" THEN
    Saved("approved_hr", "approved by HR", user)
  ELSE Refused(400, leave)

\* LeaveRequestViewSet.approve
approve(leave, user) ==
  IF leave.status = "submitted" THEN
    IF role[user] = "manager" /\ manager[leave.employee] = user THEN
      Saved("approved_manager", "approved by manager", user)
    ELSE IF role[user] = "hr" THEN
      Saved("approved_hr", "approved by HR", user)
    ELSE Refused(403, leave)
  ELSE IF leave.status = "approved_manager" /\ role[user] = "hr" THEN
    Saved("approved_hr", "approved by HR", user)
  ELSE Refused(400, leave)

\* reject with the status assigned and saved before the role is looked at.
reject_saves_before_role_check(leave, user) ==
  IF leave.status \in {"submitted", "approved_manager"} THEN
    IF role[user] \in {"manager", "hr"}
    THEN Saved("rejected", "rejected", user)
    ELSE [code |-> 400, save |-> TRUE, status |-> "rejected", create |-> <<>>]
  ELSE Refused(400, leave)

\* LeaveRequestViewSet.reject
reject(leave, user) ==
  IF /\ leave.status \in {"submitted", "approved_manager"}
     /\ role[user] \in {"manager", "hr"}
  THEN Saved("rejected", "rejected", user)
  ELSE Refused(400, leave)

\* cancel with the status test left out.
cancel_without_status_check(leave, user) ==
  IF leave.employee = user
  THEN Saved("cancelled", "cancelled", user)
  ELSE Refused(400, leave)

\* LeaveRequestViewSet.cancel
cancel(leave, user) ==
  IF /\ leave.status \notin {"approved_hr", "rejected", "cancelled"}
     /\ leave.employee = user
  THEN Saved("cancelled", "cancelled", user)
  ELSE Refused(400, leave)

\* The router's dispatch of POST /leaves/{pk}/<action>/ to its handler.
Handler(action, leave, user) ==
  CASE action = "submit"  -> submit(leave, user)
    [] action = "approve" -> approve(leave, user)
    [] action = "reject"  -> reject(leave, user)
    [] action = "cancel"  -> cancel(leave, user)

\* A response: its status code and, for a list, the primary keys of the rows
\* in its body (the body of every other response is left empty here).
Response(op, user, pk, code) ==
  [op |-> op, user |-> user, pk |-> pk, code |-> code, body |-> {}]

ListResponse(user, pks) ==
  [op |-> "list", user |-> user, pk |-> 0, code |-> 200, body |-> pks]

NoLeave == [employee |-> None, status |-> None]
NoDates == [start_date |-> Absent, end_date |-> Absent]
Idle == [action |-> None, user |-> None, pk |-> 0, leave |-> NoLeave, dates |-> NoDates]
Procs == {"p1", "p2"}

Init ==
  /\ leaveRequests = <<>>
  /\ dates = <<>>
  /\ transitions = <<>>
  /\ nextId = 1
  /\ resp = Response(None, None, 0, 0)
  /\ pc = [p \in Procs |-> "idle"]
  /\ local = [p \in Procs |-> Idle]

\* POST /leaves/ : CreateModelMixin.create. An invalid body is answered 400;
\* else perform_create saves the validated fields with employee =
\* request.user, and status takes the column default 'draft' unless the
\* validated fields hold one.
Create(user, data) ==
  IF ~is_valid(data, FALSE) THEN
    /\ resp' = Response("create", user, 0, 400)
    /\ UNCHANGED <<leaveRequests, dates, transitions, nextId, pc, local>>
  ELSE
    LET v == validated_data(data) IN
    /\ nextId <= MaxRequests
    /\ leaveRequests' = leaveRequests @@
         (nextId :> [employee |-> user,
                     status |-> IF v.status # None THEN v.status ELSE "draft"])
    /\ dates' = dates @@
         (nextId :> [start_date |-> v.start_date, end_date |-> v.end_date])
    /\ transitions' = transitions @@ (nextId :> <<>>)
    /\ nextId' = nextId + 1
    /\ resp' = Response("create", user, nextId, 201)
    /\ UNCHANGED <<pc, local>>

\* POST /leaves/ with a body of valid dates and nothing else.
PostCreate(user) ==
  Create(user, [start_date |-> Today, end_date |-> Today,
                status |-> None, employee |-> None])

\* get_object raised NotFound or PermissionDenied: the error response, and
\* nothing is written.
Raise(action, user, pk, code) ==
  /\ resp' = Response(action, user, pk, code)
  /\ UNCHANGED <<leaveRequests, dates, transitions, nextId, pc, local>>

\* The statements a handler makes after its checks, run as one step:
\* leave.save() when the handler saves, LeaveTransition.objects.create for
\* each row it creates, and its response.
Commit(action, user, pk, out) ==
  /\ leaveRequests' =
       IF out.save
       THEN [leaveRequests EXCEPT ![pk] = [@ EXCEPT !.status = out.status]]
       ELSE leaveRequests
  /\ transitions' = [transitions EXCEPT ![pk] = @ \o out.create]
  /\ resp' = Response(action, user, pk, out.code)
  /\ UNCHANGED <<dates, nextId, pc, local>>

\* POST /leaves/{pk}/submit/ as one step.
PostSubmit(user, pk) ==
  LET got == get_object("submit", user, pk) IN
  IF got # 200 THEN Raise("submit", user, pk, got)
  ELSE Commit("submit", user, pk, submit(leaveRequests[pk], user))

\* POST /leaves/{pk}/approve/ as one step.
PostApprove(user, pk) ==
  LET got == get_object("approve", user, pk) IN
  IF got # 200 THEN Raise("approve", user, pk, got)
  ELSE Commit("approve", user, pk, approve(leaveRequests[pk], user))

\* POST /leaves/{pk}/reject/ as one step.
PostReject(user, pk) ==
  LET got == get_object("reject", user, pk) IN
  IF got # 200 THEN Raise("reject", user, pk, got)
  ELSE Commit("reject", user, pk, reject(leaveRequests[pk], user))

\* POST /leaves/{pk}/cancel/ as one step.
PostCancel(user, pk) ==
  LET got == get_object("cancel", user, pk) IN
  IF got # 200 THEN Raise("cancel", user, pk, got)
  ELSE Commit("cancel", user, pk, cancel(leaveRequests[pk], user))

\* The principals that send requests when handlers run one at a time; the
\* second hr principal behaves as the first and is used by the concurrent runs.
Callers == Users \ {"h2"}

Next ==
  \/ \E user \in Callers : PostCreate(user)
  \/ \E user \in Callers, pk \in Ids : PostSubmit(user, pk)
  \/ \E user \in Callers, pk \in Ids : PostApprove(user, pk)
  \/ \E user \in Callers, pk \in Ids : PostReject(user, pk)
  \/ \E user \in Callers, pk \in Ids : PostCancel(user, pk)

Spec == Init /\ [][Next]_vars

\* ---------------------------------------------------------------- reads
\* GET /leaves/ : ListModelMixin.list over get_queryset.
List(user) ==
  /\ resp' = ListResponse(user, get_queryset(user))
  /\ UNCHANGED <<leaveRequests, dates, transitions, nextId, pc, local>>

\* GET /leaves/{pk}/ : RetrieveModelMixin.retrieve, get_object and the row.
Retrieve(user, pk) ==
  /\ resp' = Response("retrieve", user, pk, get_object("retrieve", user, pk))
  /\ UNCHANGED <<leaveRequests, dates, transitions, nextId, pc, local>>

\* One caller of each role; m1 manages e1 and not h1.
Readers == {"e1", "m1", "h1"}

NextRead ==
  \/ \E user \in Readers : PostCreate(user)
  \/ \E user \in Readers, pk \in Ids : PostSubmit(user, pk)
  \/ \E user \in Readers, pk \in Ids : PostApprove(user, pk)
  \/ \E user \in Readers, pk \in Ids : PostReject(user, pk)
  \/ \E user \in Readers, pk \in Ids : PostCancel(user, pk)
  \/ \E user \in Readers : List(user)
  \/ \E user \in Readers, pk \in Ids : Retrieve(user, pk)

\* The transition handlers together with the two reads, all called by Readers.
SpecRead == Init /\ [][NextRead]_vars

\* ----------------------------------------------- update and destroy
\* ModelSerializer.update on the loaded row: every field of validated_data
\* is set on the instance, the others keep the loaded value.
updated_leave(leave, v) ==
  [employee |-> IF v.employee # None THEN v.employee ELSE leave.employee,
   status   |-> IF v.status # None THEN v.status ELSE leave.status]

updated_dates(d, v) ==
  [start_date |-> IF v.start_date # Absent THEN v.start_date ELSE d.start_date,
   end_date   |-> IF v.end_date # Absent THEN v.end_date ELSE d.end_date]

\* PUT (action "update") and PATCH (action "partial_update") /leaves/{pk}/ :
\* get_object, is_valid, then serializer.save() writes the instance.
Update(action, user, pk, data) ==
  LET got == get_object(action, user, pk) IN
  IF got # 200 THEN Raise(action, user, pk, got)
  ELSE IF ~is_valid(data, action = "partial_update") THEN
    Raise(action, user, pk, 400)
  ELSE
    LET v == validated_data(data) IN
    /\ leaveRequests' =
         [leaveRequests EXCEPT ![pk] = updated_leave(leaveRequests[pk], v)]
    /\ dates' = [dates EXCEPT ![pk] = updated_dates(dates[pk], v)]
    /\ resp' = Response(action, user, pk, 200)
    /\ UNCHANGED <<transitions, nextId, pc, local>>

\* DELETE /leaves/{pk}/ : get_object, then instance.delete(), which takes the
\* LeaveTransition rows of the request with it (on_delete=CASCADE).
Destroy(user, pk) ==
  LET got == get_object("destroy", user, pk) IN
  IF got # 200 THEN Raise("destroy", user, pk, got)
  ELSE
    LET rest == DOMAIN leaveRequests \ {pk} IN
    /\ leaveRequests' = [i \in rest |-> leaveRequests[i]]
    /\ dates' = [i \in rest |-> dates[i]]
    /\ transitions' = [i \in rest |-> transitions[i]]
    /\ resp' = Response("destroy", user, pk, 204)
    /\ UNCHANGED <<nextId, pc, local>>

NextCrud ==
  \/ Next
  \/ \E user \in Callers, data \in Bodies : Create(user, data)
  \/ \E action \in {"update", "partial_update"}, user \in Callers, pk \in Ids,
        data \in Bodies : Update(action, user, pk, data)
  \/ \E user \in Callers, pk \in Ids : Destroy(user, pk)

SpecCrud == Init /\ [][NextCrud]_vars

\* The bodies with valid dates, without and with values for the read-only
\* fields: SpecOwner is SpecCrud with these bodies, with PUT alone and with
\* Writers as the callers.
ReadOnlyBodies ==
  {data \in Bodies : data.start_date = Today /\ data.end_date = Today}

\* The callers IsOwnerOrReadOnly lets through on e1's request, and e1's
\* manager, whom it refuses.
Writers == {"e1", "m1", "h1"}

NextOwner ==
  \/ \E user \in Writers : PostCreate(user)
  \/ \E user \in Writers, pk \in Ids : PostSubmit(user, pk)
  \/ \E user \in Writers, pk \in Ids : PostApprove(user, pk)
  \/ \E user \in Writers, pk \in Ids : PostReject(user, pk)
  \/ \E user \in Writers, pk \in Ids : PostCancel(user, pk)
  \/ \E user \in Writers, data \in ReadOnlyBodies : Create(user, data)
  \/ \E user \in Writers, pk \in Ids, data \in ReadOnlyBodies :
        Update("update", user, pk, data)
  \/ \E user \in Writers, pk \in Ids : Destroy(user, pk)

SpecOwner == Init /\ [][NextOwner]_vars

\* ------------------------------------------------ handlers step by step
\* No handler opens a transaction or locks the row: each ORM call below is
\* its own committed statement, and other handlers run between them.

\* leave = self.get_object(): permission checks and the SELECT that loads the
\* row into the handler's own `leave` object.
GetObject(p, action, user, pk) ==
  /\ pc[p] = "idle"
  /\ LET got == get_object(action, user, pk) IN
     IF got # 200 THEN
       /\ resp' = Response(action, user, pk, got)
       /\ UNCHANGED <<leaveRequests, dates, transitions, nextId, pc, local>>
     ELSE
       /\ pc' = [pc EXCEPT ![p] = "loaded"]
       /\ local' = [local EXCEPT ![p] =
                      [action |-> action, user |-> user, pk |-> pk,
                       leave |-> leaveRequests[pk], dates |-> dates[pk]]]
       /\ UNCHANGED <<leaveRequests, dates, transitions, nextId, resp>>

\* The handler's checks on the loaded object, then leave.status = ...;
\* leave.save(): an UPDATE of the whole row from the loaded object.
Save(p) ==
  /\ pc[p] = "loaded"
  /\ local[p].action \in TransitionActions
  /\ LET l   == local[p]
         out == Handler(l.action, l.leave, l.user) IN
     IF out.save THEN
       /\ leaveRequests' =
            [leaveRequests EXCEPT ![l.pk] = [l.leave EXCEPT !.status = out.status]]
       /\ dates' = [dates EXCEPT ![l.pk] = l.dates]
       /\ pc' = [pc EXCEPT ![p] = "saved"]
       /\ UNCHANGED <<transitions, nextId, resp, local>>
     ELSE
       /\ resp' = Response(l.action, l.user, l.pk, out.code)
       /\ pc' = [pc EXCEPT ![p] = "idle"]
       /\ local' = [local EXCEPT ![p] = Idle]
       /\ UNCHANGED <<leaveRequests, dates, transitions, nextId>>

\* LeaveTransition.objects.create(...) and the 200 response.
CreateTransition(p) ==
  /\ pc[p] = "saved"
  /\ LET l   == local[p]
         out == Handler(l.action, l.leave, l.user) IN
     /\ transitions' = [transitions EXCEPT ![l.pk] = @ \o out.create]
     /\ resp' = Response(l.action, l.user, l.pk, out.code)
  /\ pc' = [pc EXCEPT ![p] = "idle"]
  /\ local' = [local EXCEPT ![p] = Idle]
  /\ UNCHANGED <<leaveRequests, dates, nextId>>

\* The handler stops between two statements (the worker is killed, or the
\* next statement raises): the statements already made stay committed.
Stop(p) ==
  /\ pc[p] \in {"loaded", "saved"}
  /\ resp' = Response(local[p].action, local[p].user, local[p].pk, 500)
  /\ pc' = [pc EXCEPT ![p] = "idle"]
  /\ local' = [local EXCEPT ![p] = Idle]
  /\ UNCHANGED <<leaveRequests, dates, transitions, nextId>>

\* The requests sent in the concurrent runs: the owner's submit and cancel,
\* the approve of each of two hr principals and the reject of the owner's
\* manager, all on requests created by that owner.
ConcRequests ==
  {<<"submit", "e1">>, <<"cancel", "e1">>, <<"approve", "h1">>,
   <<"approve", "h2">>, <<"reject", "m1">>}

NextConc ==
  \/ PostCreate("e1")
  \/ \E p \in Procs, r \in ConcRequests, pk \in Ids : GetObject(p, r[1], r[2], pk)
  \/ \E p \in Procs : Save(p)
  \/ \E p \in Procs : CreateTransition(p)
  \/ \E p \in Procs : Stop(p)

SpecConc == Init /\ [][NextConc]_vars

\* ------------------------------------------------- update step by step
\* The rest of update / partial_update after get_object (GetObject): is_valid
\* on the body, then serializer.save(): the validated fields are set on the
\* loaded instance and instance.save() writes every column of it.
SaveUpdate(p, data) ==
  /\ pc[p] = "loaded"
  /\ local[p].action \in {"update", "partial_update"}
  /\ LET l == local[p] IN
     IF ~is_valid(data, l.action = "partial_update") THEN
       /\ resp' = Response(l.action, l.user, l.pk, 400)
       /\ UNCHANGED <<leaveRequests, dates>>
     ELSE
       LET v == validated_data(data) IN
       /\ leaveRequests' =
            [leaveRequests EXCEPT ![l.pk] = updated_leave(l.leave, v)]
       /\ dates' = [dates EXCEPT ![l.pk] = updated_dates(l.dates, v)]
       /\ resp' = Response(l.action, l.user, l.pk, 200)
  /\ pc' = [pc EXCEPT ![p] = "idle"]
  /\ local' = [local EXCEPT ![p] = Idle]
  /\ UNCHANGED <<transitions, nextId>>

\* The requests sent in the runs with updates: the owner's submit, PUT and
\* PATCH and the approve of hr, all on requests created by that owner.
UpdRequests ==
  {<<"submit", "e1">>, <<"approve", "h1">>, <<"update", "e1">>,
   <<"partial_update", "e1">>}

\* A stale update can put a request back to an earlier status, so the
\* handlers could add LeaveTransition rows for ever: no new call is started on
\* a request that has MaxTransitions rows.
NextUpd ==
  \/ PostCreate("e1")
  \/ \E p \in Procs, r \in UpdRequests, pk \in Ids :
        /\ pk \in DOMAIN transitions => Len(transitions[pk]) < MaxTransitions
        /\ GetObject(p, r[1], r[2], pk)
  \/ \E p \in Procs : Save(p)
  \/ \E p \in Procs : CreateTransition(p)
  \/ \E p \in Procs, data \in Bodies : SaveUpdate(p, data)

SpecUpd == Init /\ [][NextUpd]_vars

\* ------------------------------------------------------------ audit log
\* LeaveTransitionViewSet.permission_classes
AuditPermissions == {"IsAuthenticated", "IsHR"}

\* LeaveTransitionViewSet.queryset: every LeaveTransition row. A row is named
\* here by its request and its place in the request's rows, which stands for
\* its primary key.
AuditRows ==
  UNION {{<<pk, i>> : i \in 1..Len(transitions[pk])} : pk \in DOMAIN transitions}

AuditResponse(op, user, code, body) ==
  [op |-> op, user |-> user, pk |-> 0, code |-> code, body |-> body]

\* check_permissions of the audit-log routes: 403 unless every class grants.
AuditDenied(user) ==
  \E perm \in AuditPermissions : ~has_permission(perm, user)

\* GET /audit-log/ : ReadOnlyModelViewSet.list
AuditList(user) ==
  /\ resp' = IF AuditDenied(user) THEN AuditResponse("audit_list", user, 403, {})
             ELSE AuditResponse("audit_list", user, 200,
                    {<<r[1], r[2], transitions[r[1]][r[2]]>> : r \in AuditRows})
  /\ UNCHANGED <<leaveRequests, dates, transitions, nextId, pc, local>>

\* GET /audit-log/{id}/ : ReadOnlyModelViewSet.retrieve; 404 for a key that
\* names no row.
AuditRetrieve(user, r) ==
  /\ resp' = IF AuditDenied(user) THEN AuditResponse("audit_retrieve", user, 403, {r})
             ELSE IF r \notin AuditRows THEN
               AuditResponse("audit_retrieve", user, 404, {r})
             ELSE AuditResponse("audit_retrieve", user, 200,
                    {<<r[1], r[2], transitions[r[1]][r[2]]>>})
  /\ UNCHANGED <<leaveRequests, dates, transitions, nextId, pc, local>>

\* POST, PUT, PATCH or DELETE on an audit-log route: a ReadOnlyModelViewSet
\* has no handler for them, so after check_permissions the answer is 405.
AuditWrite(method, user) ==
  /\ resp' = AuditResponse(method, user, IF AuditDenied(user) THEN 403 ELSE 405, {})
  /\ UNCHANGED <<leaveRequests, dates, transitions, nextId, pc, local>>

AuditMethods == {"audit_post", "audit_put", "audit_patch", "audit_delete"}

\* One caller of each role.
AuditCallers == {"e1", "m1", "h1"}

NextAudit ==
  \/ \E user \in AuditCallers : PostCreate(user)
  \/ \E user \in AuditCallers, pk \in Ids : PostSubmit(user, pk)
  \/ \E user \in AuditCallers, pk \in Ids : PostApprove(user, pk)
  \/ \E user \in AuditCallers, pk \in Ids : PostReject(user, pk)
  \/ \E user \in AuditCallers, pk \in Ids : PostCancel(user, pk)
  \/ \E user \in AuditCallers : AuditList(user)
  \/ \E user \in AuditCallers, r \in Ids \X (1..MaxRows) : AuditRetrieve(user, r)
  \/ \E method \in AuditMethods, user \in AuditCallers : AuditWrite(method, user)

\* The transition handlers together with the audit-log routes, all called by
\* AuditCallers.
SpecAudit == Init /\ [][NextAudit]_vars

\* ================================================================ claims
Terminal == {"approved_hr", "rejected", "cancelled"}

\* The transition table: the (new status, audit label) that `action` by `user`
\* gives on a request of `owner` in status `prev`; empty when the table has no
\* row for it.
Table(action, prev, user, owner) ==
  (IF action = "submit" /\ prev = "draft"
     THEN {[status |-> "submitted", action |-> "submitted"]} ELSE {})
  \cup
  (IF action = "approve" /\ prev = "submitted"
        /\ role[user] = "manager" /\ manager[owner] = user
     THEN {[status |-> "approved_manager", action |-> "approved by manager"]} ELSE {})
  \cup
  (IF action = "approve" /\ prev \in {"submitted", "approved_manager"}
        /\ role[user] = "hr"
     THEN {[status |-> "approved_hr", action |-> "approved by HR"]} ELSE {})
  \cup
  (IF action = "reject" /\ prev \in {"submitted", "approved_manager"}
        /\ role[user] \in {"manager", "hr"}
     THEN {[status |-> "rejected", action |-> "rejected"]} ELSE {})
  \cup
  (IF action = "cancel" /\ prev \in {"draft", "submitted", "approved_manager"}
        /\ user = owner
     THEN {[status |-> "cancelled", action |-> "cancelled"]} ELSE {})

\* Every request other than pk keeps its row and its audit rows in this step.
OthersUnchanged(pk) ==
  \A q \in DOMAIN leaveRequests \ {pk} :
     leaveRequests'[q] = leaveRequests[q] /\ transitions'[q] = transitions[q]

\* C1: with handlers run one at a time, a submit, approve, reject or cancel
\* that returns success leaves the request in exactly the status the
\* transition table gives for (action, previous status, caller), and appends
\* exactly one audit row for that request, with the table's label and the
\* caller as actor; no other request is touched.
C1_SuccessFollowsTable ==
  [][ (resp'.op \in TransitionActions /\ resp'.code = 200) =>
        /\ resp'.pk \in DOMAIN leaveRequests
        /\ \E e \in Table(resp'.op, leaveRequests[resp'.pk].status, resp'.user,
                          leaveRequests[resp'.pk].employee) :
              /\ leaveRequests'[resp'.pk] =
                   [leaveRequests[resp'.pk] EXCEPT !.status = e.status]
              /\ transitions'[resp'.pk] =
                   Append(transitions[resp'.pk],
                          [action |-> e.action, by |-> resp'.user])
        /\ OthersUnchanged(resp'.pk)
    ]_vars

\* C1 witness: the owner's manager has just approved a submitted request.
C1_Witness ==
  \E pk \in DOMAIN leaveRequests :
     /\ resp = Response("approve", "m1", pk, 200)
     /\ leaveRequests[pk] = [employee |-> "e1", status |-> "approved_manager"]
     /\ transitions[pk] = <<[action |-> "submitted", by |-> "e1"],
                            [action |-> "approved by manager", by |-> "m1"]>>

\* C2: a submit, approve, reject or cancel that does not return success
\* (404, 403 or 400) leaves the status of every request unchanged and
\* appends no audit row.
C2_FailureChangesNothing ==
  [][ (resp'.op \in TransitionActions /\ resp'.code # 200) =>
        leaveRequests' = leaveRequests /\ transitions' = transitions
    ]_vars

\* C2 witness: an employee-role owner's reject on the own submitted request
\* has just been refused.
C2_Witness ==
  \E pk \in DOMAIN leaveRequests :
     /\ resp = Response("reject", "e1", pk, 400)
     /\ leaveRequests[pk] = [employee |-> "e1", status |-> "submitted"]
     /\ Len(transitions[pk]) = 1

\* C3: with handlers run one at a time, once a request is approved_hr,
\* rejected or cancelled, every later submit, approve, reject or cancel on it
\* fails, its row and its audit rows stay as they are, and the owner's cancel
\* on an approved_hr request returns 400.
C3_TerminalIsFinal ==
  [][ \A pk \in DOMAIN leaveRequests :
        leaveRequests[pk].status \in Terminal =>
          /\ leaveRequests'[pk] = leaveRequests[pk]
          /\ transitions'[pk] = transitions[pk]
          /\ (resp'.op \in TransitionActions /\ resp'.pk = pk) => resp'.code # 200
          /\ ( /\ resp'.op = "cancel" /\ resp'.pk = pk
               /\ resp'.user = leaveRequests[pk].employee
               /\ leaveRequests[pk].status = "approved_hr" ) => resp'.code = 400
    ]_vars

\* C3 witness: the owner's cancel on a request that went through submit,
\* manager approval and hr approval has just returned 400.
C3_Witness ==
  \E pk \in DOMAIN leaveRequests :
     /\ resp = Response("cancel", "e1", pk, 400)
     /\ leaveRequests[pk] = [employee |-> "e1", status |-> "approved_hr"]
     /\ Len(transitions[pk]) = 3

\* The status an audit label names.
StatusOf(label) ==
  CASE label = "submitted" -> "submitted"
    [] label = "approved by manager" -> "approved_manager"
    [] label = "approved by HR" -> "approved_hr"
    [] label = "rejected" -> "rejected"
    [] label = "cancelled" -> "cancelled"

\* The request's status is the one its audit rows account for: draft with no
\* row, else the status named by the newest row.
StatusRecorded(pk) ==
  IF transitions[pk] = <<>> THEN leaveRequests[pk].status = "draft"
  ELSE leaveRequests[pk].status =
         StatusOf(transitions[pk][Len(transitions[pk])].action)

\* C4: the status write and the audit-row append of a transition are atomic:
\* whenever no handler is in flight (also after a handler stopped between
\* leave.save() and LeaveTransition.objects.create), every request's stored
\* status has its matching audit row; no status has changed without one.
C4_StatusAndRecordAtomic ==
  (\A p \in Procs : pc[p] = "idle") =>
     \A pk \in DOMAIN leaveRequests : StatusRecorded(pk)

\* C5: of two approve handlers of two different hr principals running
\* concurrently on the same submitted request at most one succeeds: under
\* every interleaving the request never holds "approved by HR" rows of two
\* different hr principals.
C5_OneHrApprovalWins ==
  \A pk \in DOMAIN transitions :
     \A i, j \in 1..Len(transitions[pk]) :
        ( /\ transitions[pk][i].action = "approved by HR"
          /\ transitions[pk][j].action = "approved by HR" )
        => transitions[pk][i].by = transitions[pk][j].by

\* C6: no lost updates between conflicting transitions: under every
\* interleaving of two handlers on the same request, a terminal status
\* (approved_hr, rejected, cancelled) whose transition is complete (status
\* written and audit row appended) is never overwritten by a handler that
\* read the status before that write.
C6_TerminalNeverOverwritten ==
  [][ \A pk \in DOMAIN leaveRequests :
        (leaveRequests[pk].status \in Terminal /\ StatusRecorded(pk)) =>
          leaveRequests'[pk].status = leaveRequests[pk].status
    ]_vars

\* C7: approval authority. In every reachable state the actor of each
\* "approved by manager" row has role manager and is the manager the
\* request's owner references, and the actor of each "approved by HR" row has
\* role hr; a request enters approved_manager only by such a manager's
\* approve and enters approved_hr only by an hr caller's approve, so a
\* manager-role caller never moves a request from approved_manager to
\* approved_hr.
C7_ApprovalAuthority ==
  [][ \A pk \in DOMAIN leaveRequests' :
        /\ \A i \in 1..Len(transitions'[pk]) :
             LET t == transitions'[pk][i] IN
             /\ t.action = "approved by manager" =>
                  role[t.by] = "manager" /\ manager[leaveRequests'[pk].employee] = t.by
             /\ t.action = "approved by HR" => role[t.by] = "hr"
        /\ ( /\ leaveRequests'[pk].status = "approved_manager"
             /\ pk \in DOMAIN leaveRequests => leaveRequests[pk].status # "approved_manager" )
           => /\ resp' = Response("approve", resp'.user, pk, 200)
              /\ role[resp'.user] = "manager"
              /\ manager[leaveRequests'[pk].employee] = resp'.user
        /\ ( /\ leaveRequests'[pk].status = "approved_hr"
             /\ pk \in DOMAIN leaveRequests => leaveRequests[pk].status # "approved_hr" )
           => /\ resp' = Response("approve", resp'.user, pk, 200)
              /\ role[resp'.user] = "hr"
    ]_vars

\* C7 witness: a request that the owner's manager and then an hr principal
\* approved.
C7_Witness ==
  \E pk \in DOMAIN leaveRequests :
     /\ leaveRequests[pk] = [employee |-> "e1", status |-> "approved_hr"]
     /\ transitions[pk] = <<[action |-> "submitted", by |-> "e1"],
                            [action |-> "approved by manager", by |-> "m1"],
                            [action |-> "approved by HR", by |-> "h1"]>>

\* C8: submit on a draft request succeeds only for the request's owner, so
\* every "submitted" audit row has the request's owner as actor.
C8_OnlyOwnerSubmits ==
  \A pk \in DOMAIN leaveRequests :
     \A i \in 1..Len(transitions[pk]) :
        transitions[pk][i].action = "submitted" =>
          transitions[pk][i].by = leaveRequests[pk].employee

\* The caller of the response is a manager-role principal who is not the
\* manager of the owner of request pk, and pk was submitted when called.
NonManagerApprove(pk) ==
  /\ resp'.op = "approve" /\ resp'.pk = pk
  /\ role[resp'.user] = "manager"
  /\ leaveRequests[pk].status = "submitted"
  /\ manager[leaveRequests[pk].employee] # resp'.user

\* C9 as stated: approve on a submitted request by a manager-role principal
\* who is not the manager of its owner returns 403, whoever owns the request,
\* and changes nothing.
C9_NonManagerApproveIs403 ==
  [][ \A pk \in DOMAIN leaveRequests :
        NonManagerApprove(pk) =>
          /\ resp'.code = 403
          /\ leaveRequests' = leaveRequests /\ transitions' = transitions
    ]_vars

\* C9 as amended: approve on a submitted request by a manager-role principal
\* who is not the manager of its owner changes nothing; it returns 403 when
\* the request is the caller's own and 404 (not found) when it belongs to
\* another principal, whose requests the caller's queryset does not hold.
C9_NonManagerApproveRefused ==
  [][ \A pk \in DOMAIN leaveRequests :
        NonManagerApprove(pk) =>
          /\ resp'.code = (IF leaveRequests[pk].employee = resp'.user THEN 403 ELSE 404)
          /\ leaveRequests' = leaveRequests /\ transitions' = transitions
    ]_vars

\* C9 witness: a manager's approve on a submitted request of another
\* manager's employee has just returned 404.
C9_Witness ==
  \E pk \in DOMAIN leaveRequests :
     /\ resp = Response("approve", "m2", pk, 404)
     /\ leaveRequests[pk] = [employee |-> "e1", status |-> "submitted"]
     /\ Len(transitions[pk]) = 1

\* C10: approve returns the status error 400 only from a status in which no
\* caller could approve (draft, approved_hr, rejected, cancelled); from
\* submitted or approved_manager a caller without the needed role or
\* relationship gets 403, never 400.
C10_Approve400OnlyForStatus ==
  [][ (resp'.op = "approve" /\ resp'.code = 400) =>
        /\ resp'.pk \in DOMAIN leaveRequests
        /\ leaveRequests[resp'.pk].status \in {"draft", "approved_hr", "rejected", "cancelled"}
    ]_vars

\* `action` is not legal from status `st` whoever calls it.
IllegalFrom(action, st) ==
  \/ action = "submit" /\ st # "draft"
  \/ action = "approve" /\ st \in {"approved_hr", "rejected", "cancelled"}
  \/ action = "reject" /\ st \in {"draft", "approved_hr", "cancelled"}

\* The last response answers `action` of a caller on request pk, which that
\* caller's queryset held.
VisibleCall(action, pk) ==
  /\ resp'.op = action /\ resp'.pk = pk
  /\ pk \in get_queryset(resp'.user)

\* C11 as stated: submit, approve or reject from a status from which the
\* action is not legal returns 400 for every caller who sees the request, a
\* manager on the own request and hr included, and changes nothing.
C11_IllegalStatusIs400 ==
  [][ \A pk \in DOMAIN leaveRequests, action \in {"submit", "approve", "reject"} :
        (VisibleCall(action, pk) /\ IllegalFrom(action, leaveRequests[pk].status)) =>
          /\ resp'.code = 400
          /\ leaveRequests' = leaveRequests /\ transitions' = transitions
    ]_vars

\* C11 as amended: such a call changes nothing and returns 400, except that
\* approve or reject by a manager-role caller who is not the manager of the
\* request's owner (the caller's own request) returns 403, the object
\* permission being checked before the status.
C11_IllegalStatusRefused ==
  [][ \A pk \in DOMAIN leaveRequests, action \in {"submit", "approve", "reject"} :
        (VisibleCall(action, pk) /\ IllegalFrom(action, leaveRequests[pk].status)) =>
          /\ resp'.code =
               (IF /\ action \in {"approve", "reject"}
                   /\ role[resp'.user] = "manager"
                   /\ manager[leaveRequests[pk].employee] # resp'.user
                THEN 403 ELSE 400)
          /\ leaveRequests' = leaveRequests /\ transitions' = transitions
    ]_vars

\* C11 witness: a manager's reject on the own draft request has just
\* returned 403.
C11_Witness ==
  \E pk \in DOMAIN leaveRequests :
     /\ resp = Response("reject", "m1", pk, 403)
     /\ leaveRequests[pk] = [employee |-> "m1", status |-> "draft"]
     /\ transitions[pk] = <<>>

\* C12: reject by a caller whose role is neither manager nor hr (an
\* employee-role owner on the own request) on a submitted or approved_manager
\* request returns the authorization error 403, not the 400 of a status
\* error, and changes nothing.
C12_RejectByEmployeeIs403 ==
  [][ \A pk \in DOMAIN leaveRequests :
        ( /\ VisibleCall("reject", pk)
          /\ role[resp'.user] \notin {"manager", "hr"}
          /\ leaveRequests[pk].status \in {"submitted", "approved_manager"} ) =>
          /\ resp'.code = 403
          /\ leaveRequests' = leaveRequests /\ transitions' = transitions
    ]_vars

\* C13 as stated: cancel by a principal other than the owner who sees the
\* request fails with the one failure the owner gets on a status that cannot
\* be cancelled (400), whoever the caller and whatever the status, and
\* changes nothing.
C13_CancelByOtherIs400 ==
  [][ \A pk \in DOMAIN leaveRequests :
        (VisibleCall("cancel", pk) /\ resp'.user # leaveRequests[pk].employee) =>
          /\ resp'.code = 400
          /\ leaveRequests' = leaveRequests /\ transitions' = transitions
    ]_vars

\* C13 as amended: cancel by a principal other than the owner who sees the
\* request changes nothing and fails the same way whatever the status, but
\* not the same way for every caller: an hr caller gets the 400 the owner
\* gets on a status that cannot be cancelled, every other caller (the owner's
\* manager) gets 403 from the object permission.
C13_CancelByOtherRefused ==
  [][ \A pk \in DOMAIN leaveRequests :
        /\ (VisibleCall("cancel", pk) /\ resp'.user # leaveRequests[pk].employee) =>
             /\ resp'.code = (IF role[resp'.user] = "hr" THEN 400 ELSE 403)
             /\ leaveRequests' = leaveRequests /\ transitions' = transitions
        /\ ( /\ VisibleCall("cancel", pk) /\ resp'.user = leaveRequests[pk].employee
             /\ leaveRequests[pk].status \in Terminal ) =>
             /\ resp'.code = 400
             /\ leaveRequests' = leaveRequests /\ transitions' = transitions
    ]_vars

\* C13 witness: the cancel of the owner's manager on a submitted request has
\* just returned 403.
C13_Witness ==
  \E pk \in DOMAIN leaveRequests :
     /\ resp = Response("cancel", "m1", pk, 403)
     /\ leaveRequests[pk] = [employee |-> "e1", status |-> "submitted"]
     /\ Len(transitions[pk]) = 1

\* The step is a successful `action` of `user` on request pk that writes
\* `status` and appends one audit row with `label` and the caller.
Succeeds(action, user, pk, status, label) ==
  /\ resp' = Response(action, user, pk, 200)
  /\ leaveRequests'[pk] = [leaveRequests[pk] EXCEPT !.status = status]
  /\ transitions'[pk] = Append(transitions[pk], [action |-> label, by |-> user])

\* C19: the full approval chain succeeds at every step. A create makes a
\* draft request of the caller with no audit row; on a request whose owner
\* references a manager-role manager M, the owner's submit from draft, M's
\* approve from submitted and an hr principal's approve from approved_manager
\* each return 200, write submitted, approved_manager and approved_hr, and
\* append "submitted", "approved by manager" and "approved by HR" in that
\* order.
C19_ApprovalChain ==
  [][ /\ resp'.op = "create" =>
           /\ resp'.code = 201
           /\ resp'.pk \notin DOMAIN leaveRequests
           /\ leaveRequests'[resp'.pk] = [employee |-> resp'.user, status |-> "draft"]
           /\ transitions'[resp'.pk] = <<>>
      /\ \A pk \in DOMAIN leaveRequests :
           LET owner == leaveRequests[pk].employee
               st    == leaveRequests[pk].status
               u     == resp'.user IN
           (resp'.pk = pk /\ manager[owner] \in Users /\ role[manager[owner]] = "manager") =>
             /\ (resp'.op = "submit" /\ u = owner /\ st = "draft") =>
                  Succeeds("submit", u, pk, "submitted", "submitted")
             /\ (resp'.op = "approve" /\ u = manager[owner] /\ st = "submitted") =>
                  Succeeds("approve", u, pk, "approved_manager", "approved by manager")
             /\ (resp'.op = "approve" /\ role[u] = "hr" /\ st = "approved_manager") =>
                  Succeeds("approve", u, pk, "approved_hr", "approved by HR")
    ]_vars

\* C19 witness: the chain has run to its end: an employee's request stands
\* in approved_hr after the hr approve, with the three audit rows in order.
C19_Witness ==
  \E pk \in DOMAIN leaveRequests :
     /\ resp = Response("approve", "h1", pk, 200)
     /\ leaveRequests[pk] = [employee |-> "e1", status |-> "approved_hr"]
     /\ transitions[pk] = <<[action |-> "submitted", by |-> "e1"],
                            [action |-> "approved by manager", by |-> "m1"],
                            [action |-> "approved by HR", by |-> "h1"]>>

\* C20: an hr principal's approve on a submitted request moves it straight
\* to approved_hr: it returns 200, appends exactly one row "approved by HR",
\* the request does not pass through approved_manager and its audit rows
\* hold no "approved by manager"; also when the hr principal is the manager
\* the owner references.
C20_HrApprovesDirectly ==
  [][ \A pk \in DOMAIN leaveRequests :
        ( /\ resp'.op = "approve" /\ resp'.pk = pk
          /\ role[resp'.user] = "hr"
          /\ leaveRequests[pk].status = "submitted" ) =>
          /\ Succeeds("approve", resp'.user, pk, "approved_hr", "approved by HR")
          /\ \A i \in 1..Len(transitions'[pk]) :
                transitions'[pk][i].action # "approved by manager"
    ]_vars

\* C20 witness: the hr principal whom the owner references as manager has
\* just approved the owner's submitted request.
C20_Witness ==
  \E pk \in DOMAIN leaveRequests :
     /\ resp = Response("approve", "h1", pk, 200)
     /\ leaveRequests[pk] = [employee |-> "m2", status |-> "approved_hr"]
     /\ transitions[pk] = <<[action |-> "submitted", by |-> "m2"],
                            [action |-> "approved by HR", by |-> "h1"]>>

\* The requests principal p may see: all for hr, the own ones and those of
\* the principals whose manager reference is p for a manager, the own ones
\* for an employee.
VisibleRequests(p) ==
  {pk \in DOMAIN leaveRequests :
     \/ role[p] = "hr"
     \/ role[p] = "manager" /\ manager[leaveRequests[pk].employee] = p
     \/ leaveRequests[pk].employee = p}

\* C14: what a principal lists or retrieves is exactly the visible set of the
\* current rows: a list returns it, a retrieve returns 200 on its members
\* and 404 on every other key, and a submit, approve, reject or cancel on a
\* request outside it returns 404 and changes nothing.
C14_VisibilityExact ==
  [][ /\ resp'.op = "list" =>
           resp'.code = 200 /\ resp'.body = VisibleRequests(resp'.user)
      /\ resp'.op = "retrieve" =>
           resp'.code = (IF resp'.pk \in VisibleRequests(resp'.user) THEN 200 ELSE 404)
      /\ (resp'.op \in TransitionActions /\ resp'.pk \notin VisibleRequests(resp'.user)) =>
           /\ resp'.code = 404
           /\ leaveRequests' = leaveRequests /\ transitions' = transitions
    ]_vars

\* C14 witness: a manager has just listed the submitted request of an
\* employee who references that manager.
C14_Witness ==
  \E pk \in DOMAIN leaveRequests :
     /\ resp = ListResponse("m1", {pk})
     /\ leaveRequests[pk] = [employee |-> "e1", status |-> "submitted"]

\* C15: the audit trail is append-only. In every step every LeaveTransition
\* row that exists still exists afterwards, on the same request, at the same
\* place in its order and with the same action label and author; no row is
\* lost, not when the owner or hr deletes the request either.
C15_AuditAppendOnly ==
  [][ \A pk \in DOMAIN transitions : \A i \in 1..Len(transitions[pk]) :
        /\ pk \in DOMAIN transitions'
        /\ i <= Len(transitions'[pk])
        /\ transitions'[pk][i] = transitions[pk][i]
    ]_vars

\* C17: every stored request has start_date <= end_date in every reachable
\* state, whatever create, PUT and PATCH bodies were sent, a PATCH with only
\* one of the two dates included.
C17_StartNotAfterEnd ==
  \A pk \in DOMAIN dates : dates[pk].start_date <= dates[pk].end_date

\* C18: after every step each request's status is one of the six of
\* STATUS_CHOICES; a request that appears was created by a 201 create and is
\* in draft with the caller as owner, whatever status or employee the body
\* held; and the owner of a request that stays is the owner it had.
C18_StatusAndOwner ==
  [][ /\ \A pk \in DOMAIN leaveRequests' :
           leaveRequests'[pk].status \in STATUS_CHOICES
      /\ \A pk \in DOMAIN leaveRequests' \ DOMAIN leaveRequests :
           /\ resp' = Response("create", resp'.user, pk, 201)
           /\ leaveRequests'[pk] = [employee |-> resp'.user, status |-> "draft"]
      /\ \A pk \in DOMAIN leaveRequests \cap DOMAIN leaveRequests' :
           leaveRequests'[pk].employee = leaveRequests[pk].employee
    ]_vars

\* C18 witness: hr has just updated (PUT, 200) the submitted request of an
\* employee, and the request is still the employee's and still submitted.
C18_Witness ==
  \E pk \in DOMAIN leaveRequests :
     /\ resp = Response("update", "h1", pk, 200)
     /\ leaveRequests[pk] = [employee |-> "e1", status |-> "submitted"]

\* C16: an update (PUT or PATCH) changes only non-status fields. The step in
\* which an update handler saves leaves the status and the owner of its
\* request as they were just before and adds or removes no LeaveTransition
\* row, whatever a transition handler committed on the request since the
\* update handler loaded it.
C16_UpdateKeepsStatus ==
  [][ \A p \in Procs :
        (/\ pc[p] = "loaded"
         /\ local[p].action \in {"update", "partial_update"}
         /\ pc'[p] = "idle") =>
        /\ leaveRequests'[local[p].pk].status = leaveRequests[local[p].pk].status
        /\ leaveRequests'[local[p].pk].employee = leaveRequests[local[p].pk].employee
        /\ transitions' = transitions
    ]_vars

\* C21: the audit-log list and retrieve succeed only for a principal of role
\* hr: an employee-role or manager-role principal is answered 403, hr lists
\* every row with 200 and retrieves a row with 200 exactly when it exists;
\* and no audit-log call, of any method, creates, changes or deletes a
\* LeaveTransition row.
C21_AuditLogHrOnlyReadOnly ==
  [][ /\ resp'.op \in {"audit_list", "audit_retrieve"} =>
           /\ resp'.code = 200 => role[resp'.user] = "hr"
           /\ role[resp'.user] \in {"employee", "manager"} => resp'.code = 403
      /\ (resp'.op = "audit_list" /\ role[resp'.user] = "hr") =>
           /\ resp'.code = 200
           /\ resp'.body =
                {<<r[1], r[2], transitions[r[1]][r[2]]>> : r \in AuditRows}
      /\ (resp'.op = "audit_retrieve" /\ role[resp'.user] = "hr") =>
           \/ resp'.code = 404 /\ \A r \in resp'.body : r \notin AuditRows
           \/ /\ resp'.code = 200
              /\ \E r \in AuditRows :
                   resp'.body = {<<r[1], r[2], transitions[r[1]][r[2]]>>}
      /\ resp'.op \in {"audit_list", "audit_retrieve"} \cup AuditMethods =>
           /\ transitions' = transitions
           /\ resp'.op \in AuditMethods => resp'.code \in {403, 405}
    ]_vars

\* C21 witness: hr has just listed the audit log of a request approved by the
\* owner's manager and then by hr, three rows.
C21_Witness ==
  \E pk \in DOMAIN transitions :
     /\ Len(transitions[pk]) = 3
     /\ resp = AuditResponse("audit_list", "h1", 200,
                 {<<pk, i, transitions[pk][i]>> : i \in 1..3})

\* The labels of the request's audit rows, oldest first, walk the transition
\* table from draft: each row's label and status are what the table gives, for
\* some action and caller, on the status named by the row before.
PathFromDraft(pk) ==
  \A i \in 1..Len(transitions[pk]) :
     LET prev == IF i = 1 THEN "draft"
                 ELSE StatusOf(transitions[pk][i - 1].action)
         label == transitions[pk][i].action
     IN \E action \in TransitionActions, user \in Users :
           [status |-> StatusOf(label), action |-> label]
              \in Table(action, prev, user, leaveRequests[pk].employee)

\* C22: with the handlers run one at a time and no request deleted, the audit
\* rows explain the status in every reachable state: a request has no row
\* exactly when it is in draft, otherwise its status is the one named by its
\* newest row, and the labels, oldest first, are a path of the transition
\* table that starts from draft.
C22_AuditExplainsStatus ==
  \A pk \in DOMAIN leaveRequests :
     /\ transitions[pk] = <<>> <=> leaveRequests[pk].status = "draft"
     /\ StatusRecorded(pk)
     /\ PathFromDraft(pk)

\* C22 witness: a request that was submitted, approved by the owner's manager
\* and then rejected by hr is in rejected with those three rows.
C22_Witness ==
  \E pk \in DOMAIN leaveRequests :
     /\ leaveRequests[pk] = [employee |-> "e1", status |-> "rejected"]
     /\ transitions[pk] = << [action |-> "submitted", by |-> "e1"],
                             [action |-> "approved by manager", by |-> "m1"],
                             [action |-> "rejected", by |-> "h1"] >>

\* How far a status is along the table: draft, submitted, approved_manager,
\* then the three terminal ones.
Rank(status) ==
  CASE status = "draft" -> 0
    [] status = "submitted" -> 1
    [] status = "approved_manager" -> 2
    [] status \in Terminal -> 3

\* The owner's cancel on request pk succeeds: 200, and the request is cancelled.
OwnerCancelSucceeds(pk) ==
  /\ PostCancel(leaveRequests[pk].employee, pk)
  /\ resp'.code = 200
  /\ leaveRequests'[pk].status = "cancelled"

\* C23: with the handlers run one at a time, a status only moves forward: a
\* step that changes a request's status takes it further along the table, so
\* never to a value it held before and never back to draft or submitted; a
\* request has at most three LeaveTransition rows, of which "submitted" can
\* only be the first; and in every non-terminal status the owner's cancel is
\* enabled and succeeds, so a terminal status can always be reached.
C23_ForwardOnlyAndCancellable ==
  /\ [](\A pk \in DOMAIN leaveRequests :
          /\ Len(transitions[pk]) <= 3
          /\ \A i \in 2..Len(transitions[pk]) :
                transitions[pk][i].action # "submitted"
          /\ leaveRequests[pk].status \notin Terminal =>
                ENABLED OwnerCancelSucceeds(pk))
  /\ [][ \A pk \in DOMAIN leaveRequests :
           leaveRequests'[pk].status # leaveRequests[pk].status =>
             Rank(leaveRequests'[pk].status) > Rank(leaveRequests[pk].status)
       ]_vars

\* C23 witness: the owner has just cancelled the own request that was
\* approved by the manager; it has three rows, the last one "cancelled".
C23_Witness ==
  \E pk \in DOMAIN leaveRequests :
     /\ resp = Response("cancel", "e1", pk, 200)
     /\ leaveRequests[pk] = [employee |-> "e1", status |-> "cancelled"]
     /\ Len(transitions[pk]) = 3
     /\ transitions[pk][2].action = "approved by manager"

====
